---- MODULE Spec2Model ----
(***************************************************************************)
(* WS281x LED strip driver for the LGT8F: a byte-oriented SPI serializer   *)
(* is used as a pulse generator.  The module models outSpiLeds in the four *)
(* revisions found in the repository:                                      *)
(*   "ino1"  spitest-lgt8f.ino lines  91-157 (EXACT_LED_TIMING or not)     *)
(*   "ino2"  spitest-lgt8f.ino lines 338-432 (three WS_TIMING_* profiles)  *)
(*   "part0" unnamed/part_000   lines 211-337 (GRB_ON_THE_FLY, ISR flag)   *)
(*   "ino4"  spitest-lgt8f.ino lines 753-890 (latest revision)             *)
(***************************************************************************)
EXTENDS Integers, Naturals, Sequences, FiniteSets, TLC

(***************************************************************************)
(* Bounds of the model.                                                    *)
(***************************************************************************)
MaxLeds == 1

\* the read histories stop recording after this many entries
MaxReads == 3 * MaxLeds + 2

\* the byte histories stop recording after this many entries: the
\* expansions of MaxReads color bytes and the flush
MaxHist == 10 * MaxReads + 4

(***************************************************************************)
(* Program constants.                                                      *)
(***************************************************************************)
\* "This mcu offers 4 bytes SPI FIFO buffer"
FifoDepth == 4

\* one subunit at 8 MHz SPI clock, in nanoseconds
SubunitNs8M == 125

\* one subunit at 4 MHz SPI clock, in nanoseconds
SubunitNs4M == 250

Variants == {"ino1", "ino2", "part0", "ino4"}

Timings == {"WS_TIMING_375", "WS_TIMING_500", "WS_TIMING_250"}

(***************************************************************************)
(* 8-bit and int arithmetic as the C code performs it.                     *)
(***************************************************************************)
Pow2(n) == 2 ^ n

\* (val & mask) != 0 for a one-bit mask
BitSet(v, mask) == (v \div mask) % 2 = 1

Shl(x, n) == x * Pow2(n)

Shr(x, n) == x \div Pow2(n)

RECURSIVE BitOr(_, _)
BitOr(a, b) ==
    IF a = 0 THEN b
    ELSE IF b = 0 THEN a
    ELSE (IF a % 2 = 1 \/ b % 2 = 1 THEN 1 ELSE 0) + 2 * BitOr(a \div 2, b \div 2)

\* uint8_t _m = ((N));
U8(x) == x % 256

(***************************************************************************)
(* gamma8[] lookup table (PROGMEM), indices 0..255 stored at 1..256.       *)
(***************************************************************************)
gamma8 == <<
      0,   0,   0,   0,   0,   0,   0,   0,   0,   0,   0,   0,   0,   0,   0,   0,
      0,   0,   0,   0,   0,   0,   0,   0,   0,   0,   0,   0,   1,   1,   1,   1,
      1,   1,   1,   1,   1,   1,   1,   1,   1,   2,   2,   2,   2,   2,   2,   2,
      2,   3,   3,   3,   3,   3,   3,   3,   4,   4,   4,   4,   4,   5,   5,   5,
      5,   6,   6,   6,   6,   7,   7,   7,   7,   8,   8,   8,   9,   9,   9,  10,
     10,  10,  11,  11,  11,  12,  12,  13,  13,  13,  14,  14,  15,  15,  16,  16,
     17,  17,  18,  18,  19,  19,  20,  20,  21,  21,  22,  22,  23,  24,  24,  25,
     25,  26,  27,  27,  28,  29,  29,  30,  31,  32,  32,  33,  34,  35,  35,  36,
     37,  38,  39,  39,  40,  41,  42,  43,  44,  45,  46,  47,  48,  49,  50,  50,
     51,  52,  54,  55,  56,  57,  58,  59,  60,  61,  62,  63,  64,  66,  67,  68,
     69,  70,  72,  73,  74,  75,  77,  78,  79,  81,  82,  83,  85,  86,  87,  89,
     90,  92,  93,  95,  96,  98,  99, 101, 102, 104, 105, 107, 109, 110, 112, 114,
    115, 117, 119, 120, 122, 124, 126, 127, 129, 131, 133, 135, 137, 138, 140, 142,
    144, 146, 148, 150, 152, 154, 156, 158, 160, 162, 164, 167, 169, 171, 173, 175,
    177, 180, 182, 184, 186, 189, 191, 193, 196, 198, 200, 203, 205, 208, 210, 213,
    215, 218, 220, 223, 225, 228, 231, 233, 236, 239, 241, 244, 247, 249, 252, 255 >>

pgm_read_byte(i) == gamma8[i + 1]

(***************************************************************************)
(* BitExpander: the fragments fb0 / fb1 of each timing profile and the     *)
(* physical bytes SPIOUT'ed for one color byte val.                        *)
(***************************************************************************)
fb0(t) ==
    CASE t = "WS_TIMING_375" -> 112    \* 0b01110000
      [] t = "WS_TIMING_500" -> 6      \* 0b00000110
      [] t = "WS_TIMING_250" -> 8      \* 0b00001000

\* fb1 of the 500/750 profile mistyped as fb0
fb1_same(t) ==
    CASE t = "WS_TIMING_375" -> 127
      [] t = "WS_TIMING_500" -> 6
      [] t = "WS_TIMING_250" -> 15

fb1(t) ==
    CASE t = "WS_TIMING_375" -> 127    \* 0b01111111
      [] t = "WS_TIMING_500" -> 7      \* 0b00000111
      [] t = "WS_TIMING_250" -> 15     \* 0b00001111

\* val & mask ? fb1 << n : fb0 << n
SelShl(t, v, mask, n) == IF BitSet(v, mask) THEN Shl(fb1(t), n) ELSE Shl(fb0(t), n)

\* val & mask ? fb1 >> n : fb0 >> n
SelShr(t, v, mask, n) == IF BitSet(v, mask) THEN Shr(fb1(t), n) ELSE Shr(fb0(t), n)

\* the five SPIOUT arguments of one nibble in the 375/875 timing;
\* m is the mask of the nibble's first bit (128 for A..D, 8 for E..H)
Nibble375(v, m) ==
    LET t == "WS_TIMING_375" IN
    << U8(SelShl(t, v, m, 1)),
       U8(SelShr(t, v, m \div 2, 1)),
       U8(BitOr(SelShr(t, v, m \div 4, 3), SelShl(t, v, m \div 2, 5))),
       U8(BitOr(SelShl(t, v, m \div 4, 5), 3)),
       U8(SelShl(t, v, m \div 8, 3)) >>

\* the lower nibble started at bit 16 (D) instead of bit 8 (E)
Out375_from16(v) == Nibble375(v, 128) \o Nibble375(v, 16)

\* upper nibble A..D, then lower nibble E..H
Out375(v) == Nibble375(v, 128) \o Nibble375(v, 8)

\* the constant bits of the fourth byte taken from the second byte
Out500_or1(v) ==
    LET t == "WS_TIMING_500" IN
    << U8(BitOr(SelShl(t, v, 128, 5), SelShl(t, v, 64, 0))),
       U8(BitOr(SelShl(t, v, 32, 3), 1)),
       U8(BitOr(SelShl(t, v, 16, 6), SelShl(t, v, 8, 1))),
       U8(BitOr(SelShl(t, v, 4, 4), 1)),
       U8(BitOr(SelShl(t, v, 2, 7), SelShl(t, v, 1, 2))) >>

Out500(v) ==
    LET t == "WS_TIMING_500" IN
    << U8(BitOr(SelShl(t, v, 128, 5), SelShl(t, v, 64, 0))),
       U8(BitOr(SelShl(t, v, 32, 3), 1)),
       U8(BitOr(SelShl(t, v, 16, 6), SelShl(t, v, 8, 1))),
       U8(BitOr(SelShl(t, v, 4, 4), 3)),
       U8(BitOr(SelShl(t, v, 2, 7), SelShl(t, v, 1, 2))) >>

\* the B fragment of the second byte shifted by 6 instead of 7
Out250_shift6(v) ==
    LET t == "WS_TIMING_250" IN
    << U8(BitOr(SelShl(t, v, 128, 4), SelShr(t, v, 64, 1))),
       U8(BitOr(BitOr(SelShl(t, v, 64, 6), SelShl(t, v, 32, 2)), 1)),
       U8(BitOr(SelShl(t, v, 16, 5), SelShl(t, v, 8, 0))),
       U8(BitOr(SelShl(t, v, 4, 3), SelShr(t, v, 2, 2))),
       U8(BitOr(SelShl(t, v, 2, 6), SelShl(t, v, 1, 1))) >>

Out250(v) ==
    LET t == "WS_TIMING_250" IN
    << U8(BitOr(SelShl(t, v, 128, 4), SelShr(t, v, 64, 1))),
       U8(BitOr(BitOr(SelShl(t, v, 64, 7), SelShl(t, v, 32, 2)), 1)),
       U8(BitOr(SelShl(t, v, 16, 5), SelShl(t, v, 8, 0))),
       U8(BitOr(SelShl(t, v, 4, 3), SelShr(t, v, 2, 2))),
       U8(BitOr(SelShl(t, v, 2, 6), SelShl(t, v, 1, 1))) >>

\* the physical bytes written for color byte v under timing t, in order
Expand(t, v) ==
    CASE t = "WS_TIMING_375" -> Out375(v)
      [] t = "WS_TIMING_500" -> Out500(v)
      [] t = "WS_TIMING_250" -> Out250(v)

\* subunits (SPI bits) per logical bit = physical bytes per color byte
SubunitCount(t) == IF t = "WS_TIMING_375" THEN 10 ELSE 5

\* HIGH run length the profile documents for a logical 0 / 1
HighLen(t, b) ==
    CASE t = "WS_TIMING_375" -> IF b = 1 THEN 7 ELSE 3
      [] t = "WS_TIMING_500" -> IF b = 1 THEN 3 ELSE 2
      [] t = "WS_TIMING_250" -> IF b = 1 THEN 4 ELSE 1

\* duration of one subunit on the line
SubunitNs(t) == IF t = "WS_TIMING_375" THEN SubunitNs8M ELSE SubunitNs4M

(***************************************************************************)
(* Reference pulse-width decoder (the receiving LED chip).                 *)
(***************************************************************************)
\* j-th bit on the line (1-based), bytes are shifted out MSB first
StreamBit(bytes, j) == (bytes[((j - 1) \div 8) + 1] \div Pow2(7 - ((j - 1) % 8))) % 2

\* the subunits of logical bit i (0 = first on the line) of color byte c
\* (0 = first) in a stream with sub subunits per logical bit
Slot(bytes, sub, c, i) == [j \in 1..sub |-> StreamBit(bytes, (8 * c + i) * sub + j)]

\* number of leading HIGH subunits of a slot
HighRun(slot) ==
    LET zs == {j \in 1..Len(slot) : slot[j] = 0}
    IN  IF zs = {} THEN Len(slot) ELSE (CHOOSE j \in zs : \A q \in zs : j <= q) - 1

\* number of HIGH subunits of a slot
HighCount(slot) == Cardinality({j \in 1..Len(slot) : slot[j] = 1})

\* long HIGH = 1, short HIGH = 0
DecodeBit(slot) == IF 2 * HighRun(slot) > Len(slot) THEN 1 ELSE 0

RECURSIVE DecodeFrom(_, _, _, _)
DecodeFrom(bytes, sub, c, i) ==
    IF i = 8 THEN 0
    ELSE DecodeBit(Slot(bytes, sub, c, i)) * Pow2(7 - i) + DecodeFrom(bytes, sub, c, i + 1)

\* the color byte a chip decodes from the c-th group of 8 slots
DecodeByte(bytes, sub, c) == DecodeFrom(bytes, sub, c, 0)

\* logical bit i (0 = most significant) of color byte v
LogicalBit(v, i) == (v \div Pow2(7 - i)) % 2

(***************************************************************************)
(* Build configurations.  A configuration is the revision of the sketch    *)
(* plus the preprocessor flags outSpiLeds is compiled with.  isrs is the   *)
(* effective ALLOW_ISRS_INBETWEEN (undefined by setupSpiLeds at 8 MHz);    *)
(* the first two revisions have no such flag and always open the window.   *)
(***************************************************************************)
AllConfigs ==
    [variant : Variants, timing : Timings, gamma : BOOLEAN, grb : BOOLEAN, isrs : BOOLEAN]

\* the configurations the preprocessor and compiler accept
Builds(c) ==
    CASE c.variant = "ino1" ->
            /\ c.timing \in {"WS_TIMING_375", "WS_TIMING_500"}
            /\ ~c.grb
            /\ c.isrs
      [] c.variant = "ino2" -> ~c.grb /\ c.isrs
         \* "#define WS_READNEXT *p++;" inside gamma8[...] does not compile
      [] OTHER -> ~(c.gamma /\ ~c.grb)

Configs == {c \in AllConfigs : Builds(c)}

(***************************************************************************)
(* Inputs.                                                                 *)
(***************************************************************************)
\* the 2-LED scenario buffer [255,0,0, 0,255,0], repeated
PatternA(i) == <<255, 0, 0, 0, 255, 0>>[((i - 1) % 6) + 1]

\* pairwise distinct bytes, starting with the header comment's 200
PatternB(i) == (200 + 37 * (i - 1)) % 256

SampleBuffers(n) ==
    { [i \in 1..(3 * n) |-> PatternA(i)], [i \in 1..(3 * n) |-> PatternB(i)] }

\* what a read past the end of the buffer may return: whatever the memory
\* after the buffer holds, any byte
OobBytes == 0..255

(***************************************************************************)
(* State.                                                                  *)
(***************************************************************************)
VARIABLES
    cfg,        \* build configuration
    leds,       \* argument leds / numleds
    buffer,     \* the caller's color buffer, 3 * leds bytes
    depth,      \* depth of the hardware write FIFO
    pc,         \* position in outSpiLeds
    p,          \* read pointer, as a byte offset into buffer
    ccount,     \* channel counter of GRB_ON_THE_FLY
    val,        \* the color byte being expanded
    k,          \* physical bytes already written for val / flush bytes written
    sreg,       \* saved I flag (uint8_t sreg = SREG)
    ien,        \* I flag of SREG: interrupts enabled
    spe,        \* SPE bit of SPCR
    fifo,       \* bytes deposited in SPDR and not yet shifted out
    shifted,    \* history: bytes shifted onto the line
    written,    \* history: bytes deposited in SPDR
    reads,      \* history: buffer offsets read
    vals,       \* history: color bytes handed to the expander
    grp,        \* history: data bytes deposited since the last cli()
    isrTime,    \* history: byte times ISRs ran since interrupts were re-enabled
    starved,    \* history: an ISR let the serializer run dry inside a frame
    defs,       \* the WS_TIMING_* macros the sketch defines
    fcpu,       \* F_CPU in MHz
    errors,     \* "#pragma GCC error"s raised by the build
    spr0,       \* SPR0 bit of SPCR
    spi2x,      \* SPI2X bit of SPSR
    brightness, \* brightness of the ChannelTransform scale step
    wsIsInitialized, \* boolean wsIsInitialized of the sketch
    setups,     \* history: calls of setupSpiLeds begun
    outs,       \* history: calls of outSpiLeds begun
    displays    \* history: calls of display() begun

\* no call of the sketch's functions counted yet
ProgRest ==
    /\ wsIsInitialized = FALSE
    /\ setups = 0
    /\ outs = 0
    /\ displays = 0

\* the callers' state
progVars == <<wsIsInitialized, setups, outs, displays>>

\* what the build and setupSpiLeds decide; outSpiLeds leaves it alone
buildVars == <<defs, fcpu, errors, spr0, spi2x, brightness, progVars>>

vars == <<cfg, leds, buffer, depth, pc, p, ccount, val, k, sreg, ien, spe,
          fifo, shifted, written, reads, vals, grp, isrTime, starved, buildVars>>

(***************************************************************************)
(* Build-time checks and clock selection of setupSpiLeds.                  *)
(***************************************************************************)
\* the F_CPU values the sketch supports, in MHz
Fcpus == {8, 16, 32}

\* the check without the pair WS_TIMING_250 + WS_TIMING_375
ProfileError_nopair(v, d) ==
    LET D250 == "WS_TIMING_250" \in d
        D500 == "WS_TIMING_500" \in d
        D375 == "WS_TIMING_375" \in d
    IN  \/ (~D250 /\ ~D500 /\ ~D375)
        \/ (D250 /\ D500)
        \/ (D500 /\ D375)

\* the "Define ONE of of the WS_TIMING variants" check of revision v for the
\* set d of defined WS_TIMING_* macros
ProfileError(v, d) ==
    LET D250 == "WS_TIMING_250" \in d
        D500 == "WS_TIMING_500" \in d
        D375 == "WS_TIMING_375" \in d
    IN  CASE v = "ino1" -> FALSE      \* EXACT_LED_TIMING only, no check
          [] v = "ino2" ->
                \/ (~D250 /\ ~D500 /\ ~D375)
                \/ (D375 /\ (D250 \/ D500))
                \/ (~D375 /\ D250 /\ D500)
          [] OTHER ->
                \/ (~D250 /\ ~D500 /\ ~D375)
                \/ (D250 /\ D500)
                \/ (D250 /\ D375)
                \/ (D500 /\ D375)

\* the branch "#ifdef WS_TIMING_375" (EXACT_LED_TIMING) of the clock setup
Uses8MHz(d) == "WS_TIMING_375" \in d

\* the "LGT8SPILED only supports F_CPU ..." check
FcpuError(d, f) == IF Uses8MHz(d) THEN f \notin {32, 16} ELSE f \notin {32, 16, 8}

\* the 32 MHz branch of the 4 MHz profiles without SPCR |= 1 << SPR0
ClockBits_nospr0(d, f) ==
    IF Uses8MHz(d)
    THEN IF f = 32 THEN [spr0 |-> FALSE, spi2x |-> FALSE]
         ELSE [spr0 |-> FALSE, spi2x |-> TRUE]
    ELSE IF f = 32 THEN [spr0 |-> FALSE, spi2x |-> TRUE]
         ELSE IF f = 16 THEN [spr0 |-> FALSE, spi2x |-> FALSE]
         ELSE [spr0 |-> FALSE, spi2x |-> TRUE]

\* SPR0 and SPI2X as the clock setup leaves them
ClockBits(d, f) ==
    IF Uses8MHz(d)
    THEN IF f = 32 THEN [spr0 |-> FALSE, spi2x |-> FALSE]     \* :4
         ELSE [spr0 |-> FALSE, spi2x |-> TRUE]                \* :2
    ELSE IF f = 32 THEN [spr0 |-> TRUE, spi2x |-> TRUE]       \* :8
         ELSE IF f = 16 THEN [spr0 |-> FALSE, spi2x |-> FALSE] \* :4
         ELSE [spr0 |-> FALSE, spi2x |-> TRUE]                \* :2

\* clock divisor selected by SPR1 = 0, SPR0 and SPI2X
SpiDivisor(r0, x2) ==
    IF r0 THEN (IF x2 THEN 8 ELSE 16) ELSE (IF x2 THEN 2 ELSE 4)

\* a clock the configuration c can have been built for
BuildFcpu(c) ==
    IF c.timing = "WS_TIMING_375" THEN 16
    ELSE IF c.isrs THEN 16 ELSE 8

\* append to a history variable, which stops recording when full
Record(h, x) == IF Len(h) < MaxHist THEN Append(h, x) ELSE h

RecordRead(h, x) == IF Len(h) < MaxReads THEN Append(h, x) ELSE h

\* uint8_t *pEnd = p + (leds * 3)
pEnd == 3 * leds

\* WRFULL flag of SPFR
WRFULL == Len(fifo) >= depth

Init ==
    /\ cfg \in Configs
    /\ leds \in 0..MaxLeds
    /\ buffer \in SampleBuffers(leds)
    /\ depth \in 1..FifoDepth
    /\ pc = "call"
    /\ p = 0
    /\ ccount = 0
    /\ val = 0
    /\ k = 0
    /\ sreg = FALSE
    /\ ien \in BOOLEAN
    /\ spe = FALSE
    /\ fifo = <<>>
    /\ shifted = <<>>
    /\ written = <<>>
    /\ reads = <<>>
    /\ vals = <<>>
    /\ grp = 0
    /\ isrTime = 0
    /\ starved = FALSE
    /\ defs = {cfg.timing}
    /\ fcpu = BuildFcpu(cfg)
    /\ errors = {}
    /\ spr0 = ClockBits(defs, fcpu).spr0
    /\ spi2x = ClockBits(defs, fcpu).spi2x
    /\ brightness = 255
    /\ ProgRest

(***************************************************************************)
(* outSpiLeds                                                              *)
(***************************************************************************)
\* the cli() of the build without interrupt windows left out
Enter_nocli ==
    /\ pc = "call"
    /\ sreg' = ien
    /\ ien' = ien
    /\ ccount' = 0
    /\ pc' = "enable"
    /\ UNCHANGED <<buildVars, isrTime, starved, grp, cfg, leds, buffer, depth, p, val, k, spe, fifo, shifted, written, reads, vals>>

\* uint8_t sreg = SREG;  #ifndef ALLOW_ISRS_INBETWEEN cli();
Enter ==
    /\ pc = "call"
    /\ sreg' = ien
    /\ ien' = IF cfg.isrs THEN ien ELSE FALSE
    /\ ccount' = 0
    /\ pc' = "enable"
    /\ UNCHANGED <<buildVars, isrTime, starved, grp, cfg, leds, buffer, depth, p, val, k, spe, fifo, shifted, written, reads, vals>>

\* SPCR |= 1 << SPE;
EnableSpi ==
    /\ pc = "enable"
    /\ spe' = TRUE
    /\ pc' = "loop"
    /\ UNCHANGED <<buildVars, isrTime, starved, grp, cfg, leds, buffer, depth, p, ccount, val, k, sreg, ien, fifo, shifted, written, reads, vals>>

\* the offset WS_READNEXT reads
ReadOffset ==
    IF ~cfg.grb THEN p
    ELSE IF cfg.variant = "part0"
         THEN p + (IF ccount % 2 = 0 THEN ccount + 1 ELSE ccount - 1)    \* ccount^1
         ELSE p + (IF ccount = 0 THEN 1 ELSE IF ccount = 1 THEN 0 ELSE 2)

\* the bytes a read at offset off may return
ReadBytes(off) == IF off < Len(buffer) THEN {buffer[off + 1]} ELSE OobBytes

\* the byte read used as it is
Transform_raw(b) == b

\* GAMMACORRECTION
Transform(b) == IF cfg.gamma THEN pgm_read_byte(b) ELSE b

\* while (p < pEnd) { uint8_t val = WS_READNEXT;
ReadNext ==
    /\ pc = "loop"
    /\ p < pEnd
    /\ \E b \in ReadBytes(ReadOffset) :
          /\ val' = Transform(b)
          /\ vals' = RecordRead(vals, Transform(b))
    /\ reads' = RecordRead(reads, ReadOffset)
    /\ p' = IF cfg.grb THEN p ELSE p + 1
    /\ k' = 0
    /\ pc' = "cli"
    /\ UNCHANGED <<buildVars, isrTime, starved, grp, cfg, leds, buffer, depth, ccount, sreg, ien, spe, fifo, shifted, written>>

\* the cli() in front of the group left out
CliGroup_nocli ==
    /\ pc = "cli"
    /\ pc' = "out"
    /\ UNCHANGED <<buildVars, isrTime, starved, grp, cfg, leds, buffer, depth, p, ccount, val, k, sreg, ien, spe, fifo, shifted, written, reads, vals>>

\* cli() in front of the group of SPIOUTs
CliGroup ==
    /\ pc = "cli"
    /\ ien' = IF cfg.isrs THEN FALSE ELSE ien
    /\ grp' = IF cfg.isrs THEN 0 ELSE grp
    /\ pc' = "out"
    /\ UNCHANGED <<buildVars, isrTime, starved, cfg, leds, buffer, depth, p, ccount, val, k, sreg, spe, fifo, shifted, written, reads, vals>>

\* SPDR written without the wait for WRFULL: a byte written into the full
\* FIFO is lost
SPIOUT_nowait(m) ==
    /\ fifo' = IF WRFULL THEN fifo ELSE Append(fifo, m)
    /\ written' = Record(written, m)

\* #define SPIOUT(N) { uint8_t _m=((N)); while ((SPFR & _BV(WRFULL))); SPDR=_m; }
SPIOUT(m) ==
    /\ ~WRFULL
    /\ fifo' = Append(fifo, m)
    /\ written' = Record(written, m)

\* "SREG = sreg; nop; cli()" follows the fifth SPIOUT of the 375/875 timing
WindowDue(n) == cfg.timing = "WS_TIMING_375" /\ cfg.isrs /\ n = 5

\* the first physical byte of a color byte picks up a bit left over from
\* the color byte before it
SpiOut_leak ==
    /\ pc = "out"
    /\ SPIOUT(BitOr(Expand(cfg.timing, val)[k + 1], IF k = 0 /\ Len(written) > 0 THEN 1 ELSE 0))
    /\ k' = k + 1
    /\ grp' = IF grp < MaxHist THEN grp + 1 ELSE grp
    /\ pc' = IF k + 1 = SubunitCount(cfg.timing) THEN "restore"
             ELSE IF WindowDue(k + 1) THEN "window"
             ELSE "out"
    /\ UNCHANGED <<buildVars, isrTime, starved, cfg, leds, buffer, depth, p, ccount, val, sreg, ien, spe, shifted, reads, vals>>

\* the next physical byte of val
SpiOut ==
    /\ pc = "out"
    /\ SPIOUT(Expand(cfg.timing, val)[k + 1])
    /\ k' = k + 1
    /\ grp' = IF grp < MaxHist THEN grp + 1 ELSE grp
    /\ pc' = IF k + 1 = SubunitCount(cfg.timing) THEN "restore"
             ELSE IF WindowDue(k + 1) THEN "window"
             ELSE "out"
    /\ UNCHANGED <<buildVars, isrTime, starved, cfg, leds, buffer, depth, p, ccount, val, sreg, ien, spe, shifted, reads, vals>>

\* SREG = sreg;  asm("nop")  between the two nibbles of the 375/875 timing
WindowOpen ==
    /\ pc = "window"
    /\ ien' = sreg
    /\ isrTime' = 0
    /\ pc' = "nop"
    /\ UNCHANGED <<buildVars, starved, grp, cfg, leds, buffer, depth, p, ccount, val, k, sreg, spe, fifo, shifted, written, reads, vals>>

\* the cli() after the nop left out
WindowClose_nocli ==
    /\ pc = "nop"
    /\ pc' = "out"
    /\ UNCHANGED <<buildVars, isrTime, starved, grp, cfg, leds, buffer, depth, p, ccount, val, k, sreg, ien, spe, fifo, shifted, written, reads, vals>>

\* cli() after the nop
WindowClose ==
    /\ pc = "nop"
    /\ ien' = FALSE
    /\ grp' = 0
    /\ pc' = "out"
    /\ UNCHANGED <<buildVars, isrTime, starved, cfg, leds, buffer, depth, p, ccount, val, k, sreg, spe, fifo, shifted, written, reads, vals>>

\* #ifdef ALLOW_ISRS_INBETWEEN  SREG = sreg;  ccount++; if (ccount==3) {...}  #endif
Restore ==
    /\ pc = "restore"
    /\ ien' = IF cfg.isrs THEN sreg ELSE ien
    /\ isrTime' = IF cfg.isrs THEN 0 ELSE isrTime
    /\ IF cfg.isrs /\ cfg.grb
       THEN IF ccount + 1 = 3
            THEN ccount' = 0 /\ p' = p + 3
            ELSE ccount' = ccount + 1 /\ p' = p
       ELSE UNCHANGED <<ccount, p>>
    /\ pc' = "loop"
    /\ UNCHANGED <<buildVars, starved, grp, cfg, leds, buffer, depth, val, k, sreg, spe, fifo, shifted, written, reads, vals>>

\* loop exit; the latest revision does cli() in front of the flush
LoopExit ==
    /\ pc = "loop"
    /\ ~(p < pEnd)
    /\ ien' = IF cfg.variant = "ino4" /\ cfg.isrs THEN FALSE ELSE ien
    /\ grp' = IF cfg.variant = "ino4" /\ cfg.isrs THEN 0 ELSE grp
    /\ k' = 0
    /\ pc' = "flush"
    /\ UNCHANGED <<buildVars, isrTime, starved, cfg, leds, buffer, depth, p, ccount, val, sreg, spe, fifo, shifted, written, reads, vals>>

\* only three SPIOUT(0)
Flush_three ==
    /\ pc = "flush"
    /\ SPIOUT(0)
    /\ k' = k + 1
    /\ pc' = IF k + 1 = 3 THEN "disable" ELSE "flush"
    /\ UNCHANGED <<buildVars, isrTime, starved, grp, cfg, leds, buffer, depth, p, ccount, val, sreg, ien, spe, shifted, reads, vals>>

\* SPIOUT(0); four times
Flush ==
    /\ pc = "flush"
    /\ SPIOUT(0)
    /\ k' = k + 1
    /\ pc' = IF k + 1 = 4 THEN "disable" ELSE "flush"
    /\ UNCHANGED <<buildVars, isrTime, starved, grp, cfg, leds, buffer, depth, p, ccount, val, sreg, ien, spe, shifted, reads, vals>>

\* SPCR &= ~(1 << SPE);
Disable ==
    /\ pc = "disable"
    /\ spe' = FALSE
    /\ pc' = "exit"
    /\ UNCHANGED <<buildVars, isrTime, starved, grp, cfg, leds, buffer, depth, p, ccount, val, k, sreg, ien, fifo, shifted, written, reads, vals>>

\* the trailing SREG = sreg left out
Return_norestore ==
    /\ pc = "exit"
    /\ pc' = "done"
    /\ UNCHANGED <<buildVars, isrTime, starved, grp, cfg, leds, buffer, depth, p, ccount, val, k, sreg, ien, spe, fifo, shifted, written, reads, vals>>

\* the trailing SREG = sreg (conditional in part_000, absent in the first two revisions)
Return ==
    /\ pc = "exit"
    /\ ien' = IF cfg.variant = "ino4" \/ (cfg.variant = "part0" /\ ~cfg.isrs) THEN sreg ELSE ien
    /\ pc' = "done"
    /\ UNCHANGED <<buildVars, isrTime, starved, grp, cfg, leds, buffer, depth, p, ccount, val, k, sreg, spe, fifo, shifted, written, reads, vals>>

(***************************************************************************)
(* The serializer: runs on its own clock, independent of the CPU, and      *)
(* takes the oldest FIFO byte to the line.  The FIFO of the model is the    *)
(* "4 bytes SPI FIFO buffer" of the header comment; the source does not    *)
(* tell whether the byte under shift occupies one of its slots, so a byte  *)
(* in shifted has left the FIFO for the line and no more is claimed of it. *)
(***************************************************************************)
Drain ==
    /\ spe
    /\ fifo # <<>>
    /\ shifted' = Record(shifted, Head(fifo))
    /\ fifo' = Tail(fifo)
    /\ UNCHANGED <<buildVars, isrTime, starved, grp, cfg, leds, buffer, depth, pc, p, ccount, val, k, sreg, ien, spe, written, reads, vals>>

\* "if not, output signal becomes high state after buffer emptied": under
\* SPI control the line is HIGH once the serializer has run out of bytes;
\* under GPIO control it is the LOW that setupSpiLeds wrote to D11
LineHigh == spe /\ fifo = <<>> /\ shifted # <<>>

\* one step of the CPU inside outSpiLeds
Cpu ==
    \/ Enter
    \/ EnableSpi
    \/ ReadNext
    \/ CliGroup
    \/ SpiOut
    \/ WindowOpen
    \/ WindowClose
    \/ Restore
    \/ LoopExit
    \/ Flush
    \/ Disable
    \/ Return

Next == Cpu \/ Drain

Spec == Init /\ [][Next]_vars

\* calls on the hardware FIFO of FifoDepth bytes
FairInit == Init /\ depth = FifoDepth

\* the CPU keeps executing and the serializer keeps shifting
FairSpec == FairInit /\ [][Next]_vars /\ WF_vars(Cpu) /\ WF_vars(Drain)

TypeOK ==
    /\ cfg \in Configs
    /\ leds \in 0..MaxLeds
    /\ Len(buffer) = 3 * leds
    /\ Len(fifo) <= depth
    /\ val \in 0..255

(***************************************************************************)
(* Interrupt service routines.  While interrupts are enabled a handler can *)
(* take the CPU; the serializer keeps shifting meanwhile and asks the FIFO *)
(* for d bytes (a handler of more than d - 1 byte times).  The code sets   *)
(* no limit to the time a handler runs.  Outside handlers the serializer   *)
(* runs freely against the CPU, as in Next.                                *)
(***************************************************************************)
\* longest handler considered, in bytes the serializer asks for
MaxIsr == FifoDepth + 1

\* cap of the handler time recorded per window
MaxIsrTime == 2 * FifoDepth

\* append a sequence to a history variable
RecordSeq(h, s) == SubSeq(h \o s, 1, IF Len(h) + Len(s) < MaxHist THEN Len(h) + Len(s) ELSE MaxHist)

\* the frame is between its first data byte and its last flush byte
MidFrame ==
    /\ spe
    /\ pc \notin {"disable", "exit", "done"}
    /\ (IF pc = "flush" THEN Len(written) - k ELSE Len(written)) > 0

\* a handler during which the serializer asks for d bytes: it shifts the
\* bytes the FIFO holds and starves when it asks for one more
Isr ==
    /\ ien
    /\ spe
    /\ \E d \in 1..MaxIsr :
          LET n == IF d < Len(fifo) THEN d ELSE Len(fifo)
          IN  /\ shifted' = RecordSeq(shifted, SubSeq(fifo, 1, n))
              /\ fifo' = SubSeq(fifo, n + 1, Len(fifo))
              /\ isrTime' = IF isrTime + d < MaxIsrTime THEN isrTime + d ELSE MaxIsrTime
              /\ starved' = (starved \/ (d > Len(fifo) /\ MidFrame))
    /\ UNCHANGED <<buildVars, grp, cfg, leds, buffer, depth, pc, p, ccount, val, k, sreg, ien, spe, written, reads, vals>>

\* builds with interrupt windows, on the hardware FIFO of FifoDepth bytes
IsrInit == Init /\ cfg.isrs /\ depth = FifoDepth

IsrNext == Cpu \/ Drain \/ Isr

IsrSpec == IsrInit /\ [][IsrNext]_vars

(***************************************************************************)
(* The build and setupSpiLeds, for every set of WS_TIMING_* macros and     *)
(* every supported F_CPU, in the three revisions that know the macros.     *)
(* The preprocessor evaluates both checks; a build with an error produces  *)
(* no program.                                                             *)
(***************************************************************************)
\* variables of outSpiLeds that the build and the setup leave alone
callVars == <<leds, buffer, depth, p, ccount, val, k, sreg, ien, shifted, written, reads, vals, grp, isrTime, starved, brightness, progVars>>

\* #undef ALLOW_ISRS_INBETWEEN in the F_CPU == 8000000 branch
UndefIsrs(v, d, f) == v \in {"part0", "ino4"} /\ ~Uses8MHz(d) /\ f = 8

SetupInit ==
    /\ cfg \in {c \in [variant : {"ino2", "part0", "ino4"}, timing : {"none"},
                        gamma : {FALSE}, grb : {FALSE}, isrs : BOOLEAN] :
                    c.variant = "ino2" => c.isrs}
    /\ defs \in SUBSET Timings
    /\ fcpu \in Fcpus
    /\ errors = {}
    /\ spr0 = FALSE
    /\ spi2x = FALSE
    /\ brightness = 255
    /\ ProgRest
    /\ pc = "build"
    /\ leds = 0
    /\ buffer = <<>>
    /\ depth = FifoDepth
    /\ p = 0
    /\ ccount = 0
    /\ val = 0
    /\ k = 0
    /\ sreg = FALSE
    /\ ien = FALSE
    /\ spe = FALSE
    /\ fifo = <<>>
    /\ shifted = <<>>
    /\ written = <<>>
    /\ reads = <<>>
    /\ vals = <<>>
    /\ grp = 0
    /\ isrTime = 0
    /\ starved = FALSE

\* #if ... #pragma GCC error "Define ONE of of the WS_TIMING variants"
CheckProfile ==
    /\ pc = "build"
    /\ errors' = errors \cup (IF ProfileError(cfg.variant, defs) THEN {"profile"} ELSE {})
    /\ pc' = "fcpu"
    /\ UNCHANGED <<callVars, cfg, defs, fcpu, spr0, spi2x, spe, fifo>>

\* #if F_CPU == ... #else #pragma GCC error "LGT8SPILED only supports F_CPU ..."
CheckFcpu ==
    /\ pc = "fcpu"
    /\ errors' = errors \cup (IF FcpuError(defs, fcpu) THEN {"fcpu"} ELSE {})
    /\ pc' = "checked"
    /\ UNCHANGED <<callVars, cfg, defs, fcpu, spr0, spi2x, spe, fifo>>

\* the compiler stops on an error
Reject ==
    /\ pc = "checked"
    /\ errors # {}
    /\ pc' = "rejected"
    /\ UNCHANGED <<callVars, cfg, defs, fcpu, errors, spr0, spi2x, spe, fifo>>

\* the program is built with the selected profile
Accept ==
    /\ pc = "checked"
    /\ errors = {}
    /\ cfg' = [cfg EXCEPT !.timing = IF defs = {} THEN "none" ELSE CHOOSE t \in defs : TRUE,
                          !.isrs = cfg.isrs /\ ~UndefIsrs(cfg.variant, defs, fcpu)]
    /\ pc' = "spcr"
    /\ UNCHANGED <<callVars, defs, fcpu, errors, spr0, spi2x, spe, fifo>>

\* SPCR = 0 << SPIE | 1 << SPE | 1 << MSTR;
SetSPCR ==
    /\ pc = "spcr"
    /\ spe' = TRUE
    /\ spr0' = FALSE
    /\ pc' = "clock"
    /\ UNCHANGED <<callVars, cfg, defs, fcpu, errors, spi2x, fifo>>

\* SPCR |= 1 << SPR0;  SPSR = .. << SPI2X;
SetClock ==
    /\ pc = "clock"
    /\ spr0' = (spr0 \/ ClockBits(defs, fcpu).spr0)
    /\ spi2x' = ClockBits(defs, fcpu).spi2x
    /\ pc' = "spfr"
    /\ UNCHANGED <<callVars, cfg, defs, fcpu, errors, spe, fifo>>

\* SPCR &= ~(1 << SPE) left out
SetupEnd_on ==
    /\ pc = "spfr"
    /\ fifo' = <<>>
    /\ pc' = "ready"
    /\ UNCHANGED <<callVars, cfg, defs, fcpu, errors, spr0, spi2x, spe>>

\* SPFR = 0;  SPCR &= ~(1 << SPE);
SetupEnd ==
    /\ pc = "spfr"
    /\ fifo' = <<>>
    /\ spe' = FALSE
    /\ pc' = "ready"
    /\ UNCHANGED <<callVars, cfg, defs, fcpu, errors, spr0, spi2x>>

SetupNext == CheckProfile \/ CheckFcpu \/ Reject \/ Accept \/ SetSPCR \/ SetClock \/ SetupEnd

SetupSpec == SetupInit /\ [][SetupNext]_vars

\* SPI shift clock in MHz
SpiClock == fcpu \div SpiDivisor(spr0, spi2x)

(***************************************************************************)
(* Sequences of calls.  setup() and loop() of the sketch call              *)
(* setupSpiLeds and outSpiLeds; the last revision calls display(), which   *)
(* calls setupSpiLeds the first time and outSpiLeds every time.            *)
(***************************************************************************)
\* calls per sequence
MaxCalls == 3

\* the SPI registers, the interrupt flag and the build
hwVars == <<cfg, depth, ien, spe, fifo, defs, fcpu, errors, spr0, spi2x, brightness>>

\* outSpiLeds(b, n) is called: fresh locals, fresh histories
StartOut(n, b) ==
    /\ pc' = "call"
    /\ leds' = n
    /\ buffer' = b
    /\ p' = 0
    /\ ccount' = 0
    /\ val' = 0
    /\ k' = 0
    /\ sreg' = FALSE
    /\ shifted' = <<>>
    /\ written' = <<>>
    /\ reads' = <<>>
    /\ vals' = <<>>
    /\ grp' = 0
    /\ isrTime' = 0
    /\ starved' = FALSE
    /\ outs' = outs + 1

\* the sketch before setup() runs: SPCR = 0 after reset
ProgInit ==
    /\ cfg \in {c \in Configs : ~c.gamma /\ ~c.grb}
    /\ leds = 0
    /\ buffer = <<>>
    /\ depth = FifoDepth
    /\ pc = "idle"
    /\ p = 0
    /\ ccount = 0
    /\ val = 0
    /\ k = 0
    /\ sreg = FALSE
    /\ ien \in BOOLEAN
    /\ spe = FALSE
    /\ fifo = <<>>
    /\ shifted = <<>>
    /\ written = <<>>
    /\ reads = <<>>
    /\ vals = <<>>
    /\ grp = 0
    /\ isrTime = 0
    /\ starved = FALSE
    /\ defs = {cfg.timing}
    /\ fcpu = BuildFcpu(cfg)
    /\ errors = {}
    /\ spr0 = FALSE
    /\ spi2x = FALSE
    /\ brightness = 255
    /\ ProgRest

\* setupSpiLeds();
CallSetup ==
    /\ pc = "idle"
    /\ setups + outs < MaxCalls
    /\ setups' = setups + 1
    /\ pc' = "spcr"
    /\ UNCHANGED <<hwVars, leds, buffer, p, ccount, val, k, sreg, shifted, written, reads, vals, grp, isrTime, starved, wsIsInitialized, outs, displays>>

\* setupSpiLeds returns
SetupReturn ==
    /\ pc = "ready"
    /\ pc' = "idle"
    /\ UNCHANGED <<hwVars, leds, buffer, p, ccount, val, k, sreg, shifted, written, reads, vals, grp, isrTime, starved, progVars>>

\* outSpiLeds(buffer, LEDS);
CallOut ==
    /\ pc = "idle"
    /\ setups + outs < MaxCalls
    /\ \E n \in 0..MaxLeds : \E b \in SampleBuffers(n) : StartOut(n, b)
    /\ UNCHANGED <<hwVars, wsIsInitialized, setups, displays>>

\* outSpiLeds returns
OutReturn ==
    /\ pc = "done"
    /\ pc' = "idle"
    /\ UNCHANGED <<hwVars, leds, buffer, p, ccount, val, k, sreg, shifted, written, reads, vals, grp, isrTime, starved, progVars>>

ProgNext ==
    \/ CallSetup
    \/ SetSPCR
    \/ SetClock
    \/ SetupEnd
    \/ SetupReturn
    \/ CallOut
    \/ Cpu
    \/ Drain
    \/ OutReturn

ProgSpec == ProgInit /\ [][ProgNext]_vars

\* an outSpiLeds call is in progress
InOut == pc \in {"call", "enable", "loop", "cli", "out", "window", "nop", "restore", "flush", "disable", "exit"}

\* a setupSpiLeds call is in progress
InSetup == pc \in {"spcr", "clock", "spfr"}

\* the last revision, NUMBER_OF_LEDS LEDs, before the first display()
DisplayInit ==
    /\ cfg \in {c \in Configs : c.variant = "ino4"}
    /\ leds \in 0..MaxLeds
    /\ buffer \in SampleBuffers(leds)
    /\ depth = FifoDepth
    /\ pc = "idle"
    /\ p = 0
    /\ ccount = 0
    /\ val = 0
    /\ k = 0
    /\ sreg = FALSE
    /\ ien = TRUE
    /\ spe = FALSE
    /\ fifo = <<>>
    /\ shifted = <<>>
    /\ written = <<>>
    /\ reads = <<>>
    /\ vals = <<>>
    /\ grp = 0
    /\ isrTime = 0
    /\ starved = FALSE
    /\ defs = {cfg.timing}
    /\ fcpu = BuildFcpu(cfg)
    /\ errors = {}
    /\ spr0 = FALSE
    /\ spi2x = FALSE
    /\ brightness = 255
    /\ ProgRest

\* display();
DisplayCall ==
    /\ pc = "idle"
    /\ displays < MaxCalls
    /\ displays' = displays + 1
    /\ pc' = "display"
    /\ UNCHANGED <<hwVars, leds, buffer, p, ccount, val, k, sreg, shifted, written, reads, vals, grp, isrTime, starved, wsIsInitialized, setups, outs>>

\* if (!wsIsInitialized) { setupSpiLeds();
DisplaySetup ==
    /\ pc = "display"
    /\ ~wsIsInitialized
    /\ setups' = setups + 1
    /\ pc' = "spcr"
    /\ UNCHANGED <<hwVars, leds, buffer, p, ccount, val, k, sreg, shifted, written, reads, vals, grp, isrTime, starved, wsIsInitialized, outs, displays>>

\* the flag is never set
DisplayFlag_unset ==
    /\ pc = "ready"
    /\ pc' = "display"
    /\ UNCHANGED <<hwVars, leds, buffer, p, ccount, val, k, sreg, shifted, written, reads, vals, grp, isrTime, starved, progVars>>

\* wsIsInitialized = true; }
DisplayFlag ==
    /\ pc = "ready"
    /\ wsIsInitialized' = TRUE
    /\ pc' = "display"
    /\ UNCHANGED <<hwVars, leds, buffer, p, ccount, val, k, sreg, shifted, written, reads, vals, grp, isrTime, starved, setups, outs, displays>>

\* outSpiLeds(leds, NUMBER_OF_LEDS);
DisplayOut ==
    /\ pc = "display"
    /\ wsIsInitialized
    /\ \E b \in SampleBuffers(leds) : StartOut(leds, b)
    /\ UNCHANGED <<hwVars, wsIsInitialized, setups, displays>>

\* display() returns
DisplayReturn ==
    /\ pc = "done"
    /\ pc' = "idle"
    /\ UNCHANGED <<hwVars, leds, buffer, p, ccount, val, k, sreg, shifted, written, reads, vals, grp, isrTime, starved, progVars>>

DisplayNext ==
    \/ DisplayCall
    \/ DisplaySetup
    \/ SetSPCR
    \/ SetClock
    \/ SetupEnd
    \/ DisplayFlag
    \/ DisplayOut
    \/ Cpu
    \/ Drain
    \/ DisplayReturn

DisplaySpec == DisplayInit /\ [][DisplayNext]_vars

(***************************************************************************)
(* The data loop of outSpiLeds(<<v, v + 1, 255>>, 1) with GAMMACORRECTION, *)
(* for every byte value v: every entry of gamma8 is read, next to its      *)
(* neighbour.                                                              *)
(***************************************************************************)
GammaInit ==
    /\ cfg \in {c \in Configs : c.gamma /\ c.timing = "WS_TIMING_500"}
    /\ leds = 1
    /\ \E v \in 0..255 : buffer = <<v, (v + 1) % 256, 255>>
    /\ depth = FifoDepth
    /\ pc = "loop"
    /\ p = 0
    /\ ccount = 0
    /\ val = 0
    /\ k = 0
    /\ sreg = TRUE
    /\ ien = cfg.isrs
    /\ spe = TRUE
    /\ fifo = <<>>
    /\ shifted = <<>>
    /\ written = <<>>
    /\ reads = <<>>
    /\ vals = <<>>
    /\ grp = 0
    /\ isrTime = 0
    /\ starved = FALSE
    /\ defs = {cfg.timing}
    /\ fcpu = BuildFcpu(cfg)
    /\ errors = {}
    /\ spr0 = ClockBits(defs, fcpu).spr0
    /\ spi2x = ClockBits(defs, fcpu).spi2x
    /\ brightness = 255
    /\ ProgRest

GammaNext == ReadNext \/ CliGroup \/ SpiOut \/ Restore \/ Drain

GammaSpec == GammaInit /\ [][GammaNext]_vars

(***************************************************************************)
(* Brightness scaling of a color byte.  The sketch has no brightness code; *)
(* the operation is the one its specification defines:                     *)
(*     value' = (value * brightness) >> 8                                  *)
(***************************************************************************)
\* brightness levels tried
BrightnessLevels == {0, 1, 64, 127, 128, 254, 255}

scale(v, b) == Shr(v * b, 8)

ScaleInit ==
    /\ cfg \in {c \in Configs : c.variant = "ino4" /\ c.timing = "WS_TIMING_500" /\ ~c.gamma /\ ~c.grb /\ c.isrs}
    /\ defs = {cfg.timing}
    /\ fcpu = BuildFcpu(cfg)
    /\ errors = {}
    /\ spr0 = ClockBits(defs, fcpu).spr0
    /\ spi2x = ClockBits(defs, fcpu).spi2x
    /\ brightness \in BrightnessLevels
    /\ ProgRest
    /\ val \in 0..255
    /\ pc = "scale"
    /\ leds = 0
    /\ buffer = <<>>
    /\ depth = FifoDepth
    /\ p = 0
    /\ ccount = 0
    /\ k = 0
    /\ sreg = FALSE
    /\ ien = FALSE
    /\ spe = FALSE
    /\ fifo = <<>>
    /\ shifted = <<>>
    /\ written = <<>>
    /\ reads = <<>>
    /\ vals = <<>>
    /\ grp = 0
    /\ isrTime = 0
    /\ starved = FALSE

\* the color byte is replaced by its scaled value; vals keeps the original
ApplyScale ==
    /\ pc = "scale"
    /\ vals' = <<val>>
    /\ val' = scale(val, brightness)
    /\ pc' = "scaled"
    /\ UNCHANGED <<buildVars, isrTime, starved, grp, cfg, leds, buffer, depth, p, ccount, k, sreg, ien, spe, fifo, shifted, written, reads>>

ScaleNext == ApplyScale

ScaleSpec == ScaleInit /\ [][ScaleNext]_vars

(***************************************************************************)
(* The expansion of one color byte, for every byte value: the loop body    *)
(* of outSpiLeds(<<v, 0, 0>>, 1) from the first SPIOUT of v to the last.   *)
(***************************************************************************)
ExpandInit ==
    /\ cfg \in {c \in Configs : c.variant = "part0" /\ ~c.gamma /\ ~c.grb}
    /\ leds = 1
    /\ \E v \in 0..255 :
          /\ buffer = <<v, 0, 0>>
          /\ val = v
          /\ vals = <<v>>
    /\ depth = FifoDepth
    /\ pc = "out"
    /\ p = 1
    /\ ccount = 0
    /\ k = 0
    /\ sreg = TRUE
    /\ ien = FALSE
    /\ spe = TRUE
    /\ fifo = <<>>
    /\ shifted = <<>>
    /\ written = <<>>
    /\ reads = <<0>>
    /\ grp = 0
    /\ isrTime = 0
    /\ starved = FALSE
    /\ defs = {cfg.timing}
    /\ fcpu = BuildFcpu(cfg)
    /\ errors = {}
    /\ spr0 = ClockBits(defs, fcpu).spr0
    /\ spi2x = ClockBits(defs, fcpu).spi2x
    /\ brightness = 255
    /\ ProgRest

ExpandNext == SpiOut \/ WindowOpen \/ WindowClose \/ Drain

ExpandSpec == ExpandInit /\ [][ExpandNext]_vars

\* all physical bytes of val have been written
Expanded == pc = "restore"

\* the slot of logical bit i of the expanded byte
ValSlot(i) == Slot(written, SubunitCount(cfg.timing), 0, i)

\* h leading HIGH subunits followed by LOW subunits only
Pulse(sub, h) == [j \in 1..sub |-> IF j <= h THEN 1 ELSE 0]

(***************************************************************************)
(* C1  Round trip: decoding the physical bytes written for a color byte    *)
(* slot by slot, long HIGH = 1 and short HIGH = 0, gives the color byte    *)
(* back, most significant bit first, in each of the three profiles.        *)
(***************************************************************************)
C1_RoundTrip ==
    Expanded => DecodeByte(written, SubunitCount(cfg.timing), 0) = val

C1_Witness ==
    /\ Expanded
    /\ cfg.timing = "WS_TIMING_375"
    /\ val = 165
    /\ DecodeByte(written, 10, 0) = 165

(***************************************************************************)
(* C2  Pulse shape: every slot written for a logical bit is the profile's  *)
(* HIGH run length of leading 1 subunits (3/7, 2/3, 1/4) and then only 0   *)
(* subunits.                                                               *)
(***************************************************************************)
C2_PulseShape ==
    Expanded =>
        \A i \in 0..7 :
            ValSlot(i) = Pulse(SubunitCount(cfg.timing), HighLen(cfg.timing, LogicalBit(val, i)))

(***************************************************************************)
(* C3  Timing windows of the 375/875 profile at 125 ns per subunit:        *)
(* a 0 bit is 250-550 ns HIGH and 700-1000 ns LOW, a 1 bit is 700-1000 ns  *)
(* HIGH and 250-550 ns LOW.                                                *)
(***************************************************************************)
HighNs(i) == HighRun(ValSlot(i)) * SubunitNs(cfg.timing)

LowNs(i) == (SubunitCount(cfg.timing) - HighCount(ValSlot(i))) * SubunitNs(cfg.timing)

C3_TimingWindows375 ==
    (Expanded /\ cfg.timing = "WS_TIMING_375") =>
        \A i \in 0..7 :
            IF LogicalBit(val, i) = 0
            THEN HighNs(i) \in 250..550 /\ LowNs(i) \in 700..1000
            ELSE HighNs(i) \in 700..1000 /\ LowNs(i) \in 250..550

(***************************************************************************)
(* C4  Literal scenario: color byte 200 expands to the five bytes          *)
(* 11110111 10100001 00001111 01000010 00010000.                           *)
(* As claimed, for the 500/750 profile:                                    *)
(***************************************************************************)
Scenario200 == <<247, 161, 15, 66, 16>>

C4_Scenario500 ==
    (Expanded /\ cfg.timing = "WS_TIMING_500" /\ val = 200) => written = Scenario200

\* C4 as amended: the five bytes are the expansion of 200 in the 250/1000
\* profile (fb0 = 10000, fb1 = 11110), which the header comment describes
C4_Scenario250 ==
    (Expanded /\ cfg.timing = "WS_TIMING_250" /\ val = 200) => written = Scenario200

C4_Witness ==
    /\ Expanded
    /\ cfg.timing = "WS_TIMING_250"
    /\ val = 200
    /\ Len(written) = 5

(***************************************************************************)
(* Whole calls of outSpiLeds.                                              *)
(***************************************************************************)
\* physical data bytes of a frame of leds LEDs
DataBytes == 3 * leds * SubunitCount(cfg.timing)

\* the call is past the data loop
InFlush == pc \in {"flush", "disable", "exit", "done"}

\* number of data (non-flush) bytes written so far
DataLen == IF InFlush THEN Len(written) - k ELSE Len(written)

\* the last n entries of a sequence
LastN(h, n) == SubSeq(h, Len(h) - n + 1, Len(h))

(***************************************************************************)
(* C5  Byte count: a call with leds LEDs writes exactly                    *)
(* 3 * leds * subunitCount data bytes followed by 4 zero bytes, never      *)
(* more data bytes, and 34 bytes for the 2-LED 5-subunit scenario.         *)
(***************************************************************************)
C5_ByteCount ==
    /\ DataLen <= DataBytes
    /\ pc = "done" =>
          /\ Len(written) = DataBytes + 4
          /\ LastN(written, 4) = <<0, 0, 0, 0>>

(***************************************************************************)
(* C6  Idle flush: the peripheral is disabled only when the last four      *)
(* bytes written are zero and follow every data byte of the values read,   *)
(* and nothing is written once it is disabled.                             *)
(***************************************************************************)
FlushedState ==
    pc \in {"exit", "done"} =>
        /\ ~spe
        /\ Len(written) = Len(vals) * SubunitCount(cfg.timing) + 4
        /\ LastN(written, 4) = <<0, 0, 0, 0>>

DisableStep ==
    (spe /\ ~spe') =>
        /\ pc = "disable"
        /\ k = 4
        /\ Len(written) >= 4
        /\ LastN(written, 4) = <<0, 0, 0, 0>>

NoWriteStep == (pc \in {"exit", "done"}) => (written' = written /\ fifo' = fifo)

C6_IdleFlush == []FlushedState /\ [][DisableStep /\ NoWriteStep]_vars

C6_Witness ==
    /\ pc = "done"
    /\ leds = 1
    /\ cfg.timing = "WS_TIMING_500"
    /\ Len(written) = 19
    /\ written[15] # 0

(***************************************************************************)
(* C7  Byte alignment and ordering: the data bytes written are the         *)
(* concatenation, in read order, of the stand-alone expansions of the      *)
(* color bytes read, each depending on that byte's value only.             *)
(***************************************************************************)
\* Expand tabulated over the profiles and all color bytes
Expansion == [t \in Timings |-> [v \in 0..255 |-> Expand(t, v)]]

\* data bytes expected once the first m color bytes are complete and j
\* bytes of the next one are out
ExpectedLen ==
    IF pc \in {"cli", "out", "window", "nop"}
    THEN (Len(vals) - 1) * SubunitCount(cfg.timing) + k
    ELSE Len(vals) * SubunitCount(cfg.timing)

C7_Concatenation ==
    Len(vals) < MaxReads =>
        /\ DataLen = ExpectedLen
        /\ \A i \in 1..Len(vals) :
              LET sub == SubunitCount(cfg.timing)
                  e == Expansion[cfg.timing][vals[i]]
              IN  \A j \in 1..sub :
                     (i - 1) * sub + j <= DataLen => written[(i - 1) * sub + j] = e[j]
        /\ \A i \in 1..Len(vals) :
              reads[i] < Len(buffer) => vals[i] = Transform(buffer[reads[i] + 1])

C7_Witness ==
    /\ pc = "done"
    /\ leds = 1
    /\ cfg.variant = "ino2"
    /\ cfg.gamma
    /\ vals = <<pgm_read_byte(200), pgm_read_byte(237), pgm_read_byte(18)>>
    /\ Len(written) = 3 * SubunitCount(cfg.timing) + 4

(***************************************************************************)
(* C8  Channel reorder: with GRB_ON_THE_FLY the reads of LED n are at      *)
(* offsets 3n+1, 3n, 3n+2, in that order; the buffer is only read.         *)
(***************************************************************************)
\* offset the i-th read (1-based) of a frame has to use
GrbOffset(i) == 3 * ((i - 1) \div 3) + <<1, 0, 2>>[((i - 1) % 3) + 1]

C8_ChannelReorder ==
    cfg.grb => \A i \in 1..Len(reads) : reads[i] = GrbOffset(i)

(***************************************************************************)
(* C9  Buffer access: every read is at an offset in 0 .. 3*leds - 1.       *)
(***************************************************************************)
C9_ReadsInBounds ==
    \A i \in 1..Len(reads) : reads[i] \in 0..(3 * leds - 1)

(***************************************************************************)
(* C10  Run to completion: a started call eventually writes the flush      *)
(* bytes, disables the peripheral and returns, for every combination of    *)
(* the flags, as long as the serializer keeps draining.                    *)
(***************************************************************************)
C10_RunToCompletion == <>(pc = "done" /\ ~spe)

(***************************************************************************)
(* C11  FIFO delivery: for every FIFO depth from 1 to 4 the occupancy      *)
(* never exceeds the depth, a byte is deposited only while the FIFO is not *)
(* full, and the bytes shifted out are a prefix of the bytes written: the  *)
(* bytes written are the bytes shifted followed by the bytes in the FIFO.  *)
(***************************************************************************)
\* a is a prefix of b
IsPrefix(a, b) == Len(a) <= Len(b) /\ a = SubSeq(b, 1, Len(a))

FifoOrder ==
    /\ Len(fifo) <= depth
    /\ IsPrefix(shifted, written)
    /\ Len(written) < MaxHist => written = shifted \o fifo

DepositStep == (Len(fifo') > Len(fifo)) => (Len(fifo) < depth /\ Len(fifo') = Len(fifo) + 1)

C11_FifoDelivery == []FifoOrder /\ [][DepositStep]_vars

C11_Witness ==
    /\ depth = 1
    /\ pc = "out"
    /\ k = 3
    /\ Len(shifted) = 2
    /\ Len(fifo) = 1
    /\ written = shifted \o fifo

(***************************************************************************)
(* C12  No starvation: a handler admitted while interrupts are enabled     *)
(* never lets the serializer find the FIFO empty between the first data    *)
(* byte and the last flush byte.  The code limits when a handler may       *)
(* start, not how long it runs, so this fails.                             *)
(***************************************************************************)
C12_NoStarvation == ~starved

(***************************************************************************)
(* C13  Interrupts off while writing data: from the cli() in front of a    *)
(* group of data bytes to the write of its last byte interrupts are        *)
(* disabled, in every configuration, so each data byte is computed and     *)
(* deposited with interrupts off and a handler runs between groups only.   *)
(***************************************************************************)
DataDepositStep == (pc = "out" /\ Len(fifo') > Len(fifo)) => (~ien /\ ~ien')

C13_InterruptsOffWriting ==
    [](pc \in {"out", "window", "restore"} => ~ien) /\ [][DataDepositStep]_vars

C13_Witness ==
    /\ cfg.isrs
    /\ cfg.timing = "WS_TIMING_375"
    /\ sreg
    /\ ~ien
    /\ pc = "out"
    /\ k = 7

(***************************************************************************)
(* C14  No-slack mode: in a build without interrupt windows interrupts are *)
(* disabled before the SPI is enabled and stay disabled until the four     *)
(* flush bytes are written and the SPI is disabled again.                  *)
(***************************************************************************)
NoSlackState ==
    ~cfg.isrs =>
        /\ spe => ~ien
        /\ pc \in {"enable", "loop", "cli", "out", "restore", "flush", "disable", "exit"} => ~ien

NoSlackStep == (~cfg.isrs /\ ~ien /\ ien') => (pc = "exit" /\ ~spe /\ Len(written) >= 4)

C14_NoSlack == []NoSlackState /\ [][NoSlackStep]_vars

C14_Witness ==
    /\ ~cfg.isrs
    /\ fcpu = 8
    /\ sreg
    /\ ~ien
    /\ pc = "exit"
    /\ leds = 1

(***************************************************************************)
(* C16  Brightness identity: scaling a color byte at brightness 255 gives  *)
(* the color byte back, for every byte value.                              *)
(***************************************************************************)
C16_BrightnessIdentity ==
    (pc = "scaled" /\ brightness = 255) => val = vals[1]

(***************************************************************************)
(* C17  5-subunit reference expansion: the five bytes written for a color  *)
(* byte are the 40 bits obtained by concatenating, most significant bit    *)
(* first, 11100 / 11000 (WS_TIMING_500) or 11110 / 10000 (WS_TIMING_250)   *)
(* for each 1 / 0 bit, cut into bytes.                                     *)
(***************************************************************************)
\* the five subunits of logical bit b
RefPulse(t, b) ==
    IF t = "WS_TIMING_500"
    THEN (IF b = 1 THEN <<1, 1, 1, 0, 0>> ELSE <<1, 1, 0, 0, 0>>)
    ELSE (IF b = 1 THEN <<1, 1, 1, 1, 0>> ELSE <<1, 0, 0, 0, 0>>)

\* the 40 subunits of color byte v
RefBits(t, v) == [j \in 1..40 |-> RefPulse(t, LogicalBit(v, (j - 1) \div 5))[((j - 1) % 5) + 1]]

\* byte n of a bit string, first bit most significant
PackByte(bits, n) ==
    bits[8 * n - 7] * 128 + bits[8 * n - 6] * 64 + bits[8 * n - 5] * 32 + bits[8 * n - 4] * 16
    + bits[8 * n - 3] * 8 + bits[8 * n - 2] * 4 + bits[8 * n - 1] * 2 + bits[8 * n]

RefBytes(t, v) == [n \in 1..5 |-> PackByte(RefBits(t, v), n)]

C17_ReferenceExpansion ==
    (Expanded /\ cfg.timing \in {"WS_TIMING_500", "WS_TIMING_250"}) =>
        written = RefBytes(cfg.timing, val)

C17_Witness ==
    /\ Expanded
    /\ cfg.timing = "WS_TIMING_500"
    /\ val = 165
    /\ written = <<230, 57, 140, 115, 28>>

(***************************************************************************)
(* C18  Drain before disable: when outSpiLeds clears the enable bit, and   *)
(* after it, every data byte of the frame has left the FIFO for the line,  *)
(* what is left in the FIFO is at most four bytes, all zero, and the line  *)
(* is LOW.  The line part fails: the serializer can have run out of flush  *)
(* bytes before the enable bit is cleared.                                 *)
(***************************************************************************)
C18_DrainBeforeDisable ==
    pc \in {"disable", "exit", "done"} =>
        /\ Len(shifted) >= Len(vals) * SubunitCount(cfg.timing)
        /\ IsPrefix(shifted, written)
        /\ Len(fifo) <= 4
        /\ \A i \in 1..Len(fifo) : fifo[i] = 0
        /\ ~LineHigh

(***************************************************************************)
(* C19  Interrupt group size, as claimed: with interrupt windows allowed   *)
(* at most two data bytes are written between a cli() and the next         *)
(* SREG = sreg.                                                            *)
(***************************************************************************)
C19_GroupOfTwo == cfg.isrs => grp <= 2

\* C19 as amended: each interrupts-disabled region of the data loop covers
\* exactly five physical bytes: a whole color byte in the 5-subunit
\* profiles, one nibble of a color byte in the 10-subunit profile
C19_GroupOfFive ==
    cfg.isrs =>
        /\ grp <= 5
        /\ pc \in {"window", "restore"} => grp = 5
        /\ pc = "out" => grp < 5

C19_Witness ==
    /\ cfg.isrs
    /\ cfg.timing = "WS_TIMING_375"
    /\ sreg
    /\ ~ien
    /\ pc = "window"
    /\ grp = 5

(***************************************************************************)
(* C15  Profile selection: for every subset of the three WS_TIMING_*       *)
(* macros the build raises the profile error exactly if the subset does    *)
(* not hold exactly one macro, and a program exists only for subsets of    *)
(* exactly one.                                                            *)
(***************************************************************************)
C15_ProfileSelection ==
    /\ pc # "build" => (("profile" \in errors) <=> (Cardinality(defs) # 1))
    /\ pc \in {"spcr", "clock", "spfr", "ready"} =>
          /\ Cardinality(defs) = 1
          /\ defs = {cfg.timing}

C15_Witness ==
    /\ pc = "rejected"
    /\ cfg.variant = "part0"
    /\ defs = {"WS_TIMING_250", "WS_TIMING_375"}
    /\ fcpu = 16
    /\ errors = {"profile"}

(***************************************************************************)
(* C20  Clock selection: a build with one profile is rejected exactly for  *)
(* the 10-subunit profile at F_CPU 8 MHz; otherwise setupSpiLeds leaves a  *)
(* divisor that gives 8 MHz for the 10-subunit profile and 4 MHz for the   *)
(* 5-subunit profiles, so that a logical bit takes 1250 ns.                *)
(***************************************************************************)
C20_ClockSelection ==
    /\ (pc \notin {"build", "fcpu"} /\ Cardinality(defs) = 1) =>
          (("fcpu" \in errors) <=> (defs = {"WS_TIMING_375"} /\ fcpu = 8))
    /\ pc = "ready" =>
          /\ SpiClock = (IF cfg.timing = "WS_TIMING_375" THEN 8 ELSE 4)
          /\ 1000 \div SpiClock = SubunitNs(cfg.timing)
          /\ SubunitCount(cfg.timing) * (1000 \div SpiClock) = 1250

C20_Witness ==
    /\ pc = "ready"
    /\ fcpu = 32
    /\ cfg.timing = "WS_TIMING_250"
    /\ spr0
    /\ spi2x
    /\ SpiClock = 4

(***************************************************************************)
(* C21  Interrupt state restored: when outSpiLeds returns the interrupt    *)
(* flag has the value it had on entry, and a call entered with interrupts  *)
(* disabled never enables them.                                            *)
(***************************************************************************)
RestoredState ==
    /\ pc = "done" => ien = sreg
    /\ (pc # "call" /\ ~sreg) => ~ien

NeverEnabledStep == (pc # "call" /\ ~sreg) => ~ien'

C21_InterruptStateRestored == []RestoredState /\ [][NeverEnabledStep]_vars

C21_Witness ==
    /\ pc = "done"
    /\ cfg.variant = "ino4"
    /\ cfg.isrs
    /\ leds = 1
    /\ sreg
    /\ ien

(***************************************************************************)
(* C22  Peripheral ownership, as claimed: over any sequence of             *)
(* setupSpiLeds and outSpiLeds calls SPE is set only while an outSpiLeds   *)
(* call is in progress, and is clear after every completed call.           *)
(***************************************************************************)
C22_Ownership ==
    /\ spe => InOut
    /\ pc \in {"idle", "ready", "done"} => ~spe

\* C22 as amended: SPE is set only while an outSpiLeds call or a
\* setupSpiLeds call is in progress (setupSpiLeds sets it with its first
\* register write and clears it with its last), and is clear after every
\* completed call
C22_OwnershipInCalls ==
    /\ spe => (InOut \/ InSetup)
    /\ spe => pc \in {"clock", "spfr", "loop", "cli", "out", "window", "nop", "restore", "flush", "disable"}
    /\ pc \in {"idle", "ready", "done"} => ~spe

C22_Witness ==
    /\ pc = "clock"
    /\ spe
    /\ outs = 1
    /\ setups = 2
    /\ Len(written) = 19

(***************************************************************************)
(* C23  Gamma remap: gamma8 has 256 entries, a larger byte read never      *)
(* gives a smaller table value, and with gamma correction on the byte      *)
(* expanded is the table entry of the byte read from the buffer.           *)
(***************************************************************************)
\* the buffer byte of the i-th read
ReadByte(i) == buffer[reads[i] + 1]

\* the i-th read is inside the buffer
ReadInside(i) == reads[i] < Len(buffer)

C23_GammaRemap ==
    cfg.gamma =>
        /\ Len(gamma8) = 256
        /\ \A i \in 1..Len(vals) :
              /\ vals[i] \in 0..255
              /\ ReadInside(i) => vals[i] = gamma8[ReadByte(i) + 1]
        /\ \A i, j \in 1..Len(vals) :
              (ReadInside(i) /\ ReadInside(j) /\ ReadByte(i) <= ReadByte(j)) => vals[i] <= vals[j]
        /\ (pc = "restore" /\ Len(vals) < MaxReads /\ Len(written) < MaxHist) =>
              /\ val = vals[Len(vals)]
              /\ LastN(written, 5) = Expand(cfg.timing, val)

C23_Witness ==
    /\ cfg.gamma
    /\ cfg.variant = "ino2"
    /\ pc = "restore"
    /\ buffer = <<200, 201, 255>>
    /\ vals = <<129, 131>>
    /\ val = 131

(***************************************************************************)
(* C24  Phase schedule period: in the 10-subunit profile bytes 6..10 of    *)
(* the expansion of a color byte v are bytes 1..5 of the expansion of      *)
(* (v << 4) mod 256, for every v.                                          *)
(***************************************************************************)
C24_PhaseSchedulePeriod ==
    (Expanded /\ cfg.timing = "WS_TIMING_375") =>
        /\ Len(written) = 10
        /\ SubSeq(written, 6, 10) = SubSeq(Expand(cfg.timing, U8(Shl(val, 4))), 1, 5)

C24_Witness ==
    /\ Expanded
    /\ cfg.timing = "WS_TIMING_375"
    /\ val = 165
    /\ Len(written) = 10
    /\ SubSeq(written, 6, 10) # SubSeq(written, 1, 5)

(***************************************************************************)
(* C25  Lazy initialisation: over any sequence of display() calls          *)
(* setupSpiLeds runs once, inside the first display() and before the       *)
(* first outSpiLeds, and each display() makes one outSpiLeds call.         *)
(***************************************************************************)
LazyState ==
    /\ setups <= 1
    /\ wsIsInitialized => setups = 1
    /\ outs >= 1 => (wsIsInitialized /\ setups = 1)
    /\ (InSetup \/ pc = "ready") => (displays = 1 /\ outs = 0)
    /\ pc = "idle" => outs = displays
    /\ pc = "display" => outs = displays - 1
    /\ (InOut \/ pc = "done") => outs = displays
    /\ (pc = "idle" /\ displays >= 1) => setups = 1

LazyStep ==
    /\ setups' # setups => (setups = 0 /\ displays = 1 /\ outs = 0)
    /\ outs' # outs => (outs' = outs + 1 /\ outs' = displays /\ setups = 1)

C25_LazyInitialisation == []LazyState /\ [][LazyStep]_vars

C25_Witness ==
    /\ pc = "idle"
    /\ displays = 3
    /\ outs = 3
    /\ setups = 1
    /\ wsIsInitialized
    /\ leds = 1

====
